---- MODULE Spec2Model ----
(***************************************************************************)
(* The ELD record pipeline of ravi55662580/eld:                            *)
(*   read_excel.py     read_excel_file  (spreadsheet -> sidecar files)     *)
(*   parse_eld_data.py parse_eld_data, generate_seed_data                  *)
(*                     (driver_records.csv -> seed document)               *)
(* Cells of the csv file are text; "" is an empty cell, which pandas reads *)
(* as NaN.  Numbers are kept in tenths (327 is 32.7).                      *)
(***************************************************************************)
EXTENDS Integers, Sequences, FiniteSets, TLC

\* ---------------------------------------------------------------- bounds
MaxRows == 3          \* data lines of a file of the fold family
MaxOptRows == 1       \* data lines of a file of the optional-field family
MaxSheets == 3        \* sheets of the spreadsheet

\* ------------------------------------------------------ program constants
SkipRows == 5
ColumnNames ==
  << "ELD_ID", "App_Version", "Timestamp_EDT", "CoDriver", "Tractor_Number",
     "Engine_Hours", "Odometer_Miles", "New_Status", "Location", "Latitude",
     "Longitude", "Event_Status", "Event_Origin", "Event_Type", "Event_Code",
     "Verified_Timestamp_EDT", "DM_Code" >>

\* An optional value: Python None (json null) or a value.
None == << >>
Some(x) == << x >>

\* A cell of the frame: its dtype and its text.  NaN is the missing value.
NaN == [kind |-> "nan", val |-> ""]
Text(t) == [kind |-> "str", val |-> t]

\* ------------------------------------------------------------ conversions
\* The timestamp texts of the model in the order Python compares strings
\* ('0' < '8' < 'u').
TimestampTexts ==
  << "08/15/2025 09:00", "8/14/2025 10:00", "8/15/2025 10:00", "unknown" >>

\* pd.to_datetime(cell): the timestamp of a text that is a date.  NaT stands
\* for the two cases that end in an exception: NaN gives NaT, whose date()
\* raises, and a text that is no date raises in to_datetime.
NaT == [y |-> 0, mo |-> 0, d |-> 0, h |-> 0, mi |-> 0]

ToDatetime(v) ==
  CASE v.val = "08/15/2025 09:00" -> [y |-> 2025, mo |-> 8, d |-> 15, h |-> 9, mi |-> 0]
    [] v.val = "8/14/2025 10:00"  -> [y |-> 2025, mo |-> 8, d |-> 14, h |-> 10, mi |-> 0]
    [] v.val = "8/15/2025 10:00"  -> [y |-> 2025, mo |-> 8, d |-> 15, h |-> 10, mi |-> 0]
    [] OTHER -> NaT

TimestampRaises(v) == ToDatetime(v) = NaT

DateOf(ts) == <<ts.y, ts.mo, ts.d>>

Pad2(n) == IF n < 10 THEN "0" \o ToString(n) ELSE ToString(n)

\* timestamp.strftime("%Y-%m-%d")
Strftime(ts) == ToString(ts.y) \o "-" \o Pad2(ts.mo) \o "-" \o Pad2(ts.d)

\* timestamp.isoformat()
IsoFormat(ts) ==
  Strftime(ts) \o "T" \o Pad2(ts.h) \o ":" \o Pad2(ts.mi) \o ":00"

\* The texts float() accepts.
Numerals == {"32.7", "-97.1", "1234.5", "1234", "10.5"}

\* float(cell) in tenths.
Float(v) ==
  CASE v.val = "32.7" -> 327
    [] v.val = "-97.1" -> 0 - 971
    [] v.val = "1234.5" -> 12345
    [] v.val = "1234" -> 12340
    [] v.val = "10.5" -> 105

\* float(cell) raises ValueError: the text is no number.
FloatRaises(v) == v.val \notin Numerals

\* int(x) of a non-negative float in tenths: whole miles.
IntOf(x) == x \div 10

\* str(v) of a Tractor_Number cell of the frame.
Str(v) ==
  IF v.kind = "nan" THEN "nan"
  ELSE IF v.kind = "float" THEN v.val \o ".0"
  ELSE v.val

\* pd.notna
NotNa(v) == v.kind # "nan"

\* ------------------------------------------------------------- the input
Line(eld, ts, tractor, eh, odo, status, loc, lat, lon) ==
  << eld, "4.1", ts, "", tractor, eh, odo, status, loc, lat, lon,
     "1", "2", "1", "1", ts, "" >>

\* Lines for the fold: two texts of one date and a text of another, a
\* missing and an unreadable timestamp; two tractors and none; the four known
\* status codes, another code and none; a latitude that is no number.
FoldLines ==
  { Line("E1", "08/15/2025 09:00", "101", "10.5", "1234", "ON", "Dallas, TX", "32.7", "-97.1"),
    Line("E2", "8/14/2025 10:00", "102", "10.5", "1234", "D", "Dallas, TX", "32.7", "-97.1"),
    Line("E1", "8/14/2025 10:00", "", "10.5", "1234", "SB", "Dallas, TX", "32.7", "-97.1"),
    Line("E1", "8/14/2025 10:00", "101", "10.5", "1234", "YM", "Dallas, TX", "32.7", "-97.1"),
    Line("E1", "8/15/2025 10:00", "101", "10.5", "1234", "OFF", "Dallas, TX", "32.7", "-97.1"),
    Line("E2", "8/15/2025 10:00", "102", "10.5", "1234", "", "Dallas, TX", "32.7", "-97.1"),
    Line("E1", "8/15/2025 10:00", "102", "10.5", "1234", "ON", "Dallas, TX", "abc", "-97.1"),
    Line("E1", "unknown", "101", "10.5", "1234", "ON", "Dallas, TX", "32.7", "-97.1"),
    Line("E1", "", "101", "10.5", "1234", "ON", "Dallas, TX", "32.7", "-97.1") }

\* Lines that vary the optional fields of the duty event.
OptLines ==
  { Line("E1", ts, "101", eh, odo, st, loc, lat, lon) :
      ts \in {"8/15/2025 10:00"}, st \in {"ON", "YM"},
      eh \in {"10.5", ""}, odo \in {"1234", "1234.5", ""},
      loc \in {"Dallas, TX", ""}, lat \in {"32.7", "", "abc"},
      lon \in {"-97.1", ""} }

SeqsUpTo(S, n) == UNION { [1..k -> S] : k \in 0..n }

Banner == << "Carrier: FNE TRANSPORT LLC" >>
NamesLine == ColumnNames

\* Drop the last cell of a line: a file with 16 columns.
Narrow(line) == SubSeq(line, 1, Len(line) - 1)

\* A file: SkipRows banner lines, an optional line of column names, data.
MakeFile(names, data, narrow) ==
  LET body == (IF names THEN << NamesLine >> ELSE << >>) \o data
  IN  [k \in 1..SkipRows |-> Banner] \o
      (IF narrow THEN [k \in 1..Len(body) |-> Narrow(body[k])] ELSE body)

Files ==
  { MakeFile(names, data, narrow) :
      names \in BOOLEAN, narrow \in BOOLEAN,
      data \in SeqsUpTo(FoldLines, MaxRows) \cup SeqsUpTo(OptLines, MaxOptRows) }

\* ----------------------------------------------------------------- state
VARIABLES
  file,          \* driver_records.csv: a sequence of lines of cells
  pc,            \* position of the parser run
  raw,           \* the frame as read_csv returns it: rows of cells by position
  totalRecords,  \* the number printed as "Total Records"
  df,            \* the frame after the columns were named: rows by name
  assets_data, log_books, current_date, current_log,
  df_sorted,     \* the index labels of df in the order of sort_values
  idx,           \* position of the loop in df_sorted
  nextId,        \* the next value uuid.uuid4() returns
  seed_data      \* the finished document

parserVars ==
  << file, pc, raw, totalRecords, df, assets_data, log_books, current_date,
     current_log, df_sorted, idx, nextId, seed_data >>

VARIABLES
  workbook,      \* the spreadsheet: its sheet names
  lpc,           \* position of the loader run
  sheet_i,       \* position of the loop over the sheets
  disk,          \* the sidecar files that exist
  written,       \* the sidecar files this run has written
  summaries,     \* the sheets whose summary was printed
  installed,     \* the dependency installation was run
  result         \* what read_excel_file returned

loaderVars ==
  << workbook, lpc, sheet_i, disk, written, summaries, installed, result >>

\* ------------------------------------------------------- parse_eld_data
\* Type inference of read_csv for the Tractor_Number column: int64 when no
\* cell is empty, float64 when one is.
InferTractor(column, text) ==
  IF text = "" THEN NaN
  ELSE [kind |-> IF \E k \in 1..Len(column) : column[k] = "" THEN "float" ELSE "int",
        val |-> text]

\* An empty cell is NaN.
Cell(text) == IF text = "" THEN NaN ELSE Text(text)

\* pd.read_csv(file, skiprows=5): the lines after the skipped ones; the
\* first of them is the header (header='infer'), the others are the rows.
ReadCsvRows(f) ==
  LET rest == SubSeq(f, SkipRows + 1, Len(f))
      rows == Tail(rest)
      tractors == [k \in 1..Len(rows) |->
                     IF Len(rows[k]) >= 5 THEN rows[k][5] ELSE "x"]
  IN  [k \in 1..Len(rows) |->
         [c \in 1..Len(rows[k]) |->
            IF c = 5 THEN InferTractor(tractors, rows[k][c]) ELSE Cell(rows[k][c])]]

ReadCsvWidth(f) == Len(f[SkipRows + 1])

\* df.columns = [...]: the cells of a row named by position.
Label(cells) ==
  [name \in {ColumnNames[c] : c \in 1..Len(ColumnNames)} |->
     cells[CHOOSE c \in 1..Len(ColumnNames) : ColumnNames[c] = name]]

ReadCsv ==
  /\ pc = "start"
  /\ IF Len(file) <= SkipRows
     THEN \* EmptyDataError: nothing to parse after the skipped lines
          /\ pc' = "error"
          /\ UNCHANGED << raw, totalRecords >>
     ELSE /\ raw' = [width |-> ReadCsvWidth(file), rows |-> ReadCsvRows(file)]
          /\ totalRecords' = Some(Len(ReadCsvRows(file)))
          /\ pc' = "read"
  /\ UNCHANGED << file, df, assets_data, log_books, current_date, current_log,
                  df_sorted, idx, nextId, seed_data >>
  /\ UNCHANGED loaderVars

LabelColumns ==
  /\ pc = "read"
  /\ IF raw.width # Len(ColumnNames)
     THEN \* ValueError: Length mismatch
          /\ pc' = "error"
          /\ df' = df
     ELSE /\ df' = [k \in 1..Len(raw.rows) |-> Label(raw.rows[k])]
          /\ pc' = "generate"
  /\ UNCHANGED << file, raw, totalRecords, assets_data, log_books, current_date,
                  current_log, df_sorted, idx, nextId, seed_data >>
  /\ UNCHANGED loaderVars

\* --------------------------------------------------- generate_seed_data
Min(S) == CHOOSE m \in S : \A n \in S : m <= n

\* dropna() without unique(): one value for each row that has one.
UniqueTractors_NoUnique(frame) ==
  LET F[n \in 0..Len(frame)] ==
        IF n = 0 THEN << >>
        ELSE IF NotNa(frame[n].Tractor_Number)
             THEN Append(F[n - 1], frame[n].Tractor_Number)
             ELSE F[n - 1]
  IN  F[Len(frame)]

\* df['Tractor_Number'].dropna().unique(): the values that are not NaN, each
\* once, in the order of their first row.
UniqueTractors(frame) ==
  LET first == { k \in 1..Len(frame) :
                   /\ NotNa(frame[k].Tractor_Number)
                   /\ \A j \in 1..(k - 1) :
                        frame[j].Tractor_Number # frame[k].Tractor_Number }
      F[n \in 0..Len(frame)] ==
        IF n = 0 THEN << >>
        ELSE IF n \in first THEN Append(F[n - 1], frame[n].Tractor_Number)
        ELSE F[n - 1]
  IN  F[Len(frame)]

\* df[df['Tractor_Number'] == t]['ELD_ID'].iloc[0]
FirstEldId(frame, t) ==
  frame[Min({ k \in 1..Len(frame) : frame[k].Tractor_Number = t })].ELD_ID

\* The asset list; the ids come from uuid4, firstId being the first of them.
MakeAssets(frame, firstId) ==
  LET u == UniqueTractors(frame)
  IN  [k \in 1..Len(u) |->
         [_id |-> firstId + k - 1,
          vehicleNumber |-> Str(u[k]),
          eldDeviceId |-> FirstEldId(frame, u[k])]]

BuildAssets ==
  /\ pc = "generate"
  \* nextId is the carrier's _id, the assets follow, then the driver
  /\ assets_data' = MakeAssets(df, nextId + 1)
  /\ nextId' = nextId + 1 + Len(UniqueTractors(df)) + 1
  /\ log_books' = << >>
  /\ current_date' = None
  /\ current_log' = None
  /\ pc' = "sort"
  /\ UNCHANGED << file, raw, totalRecords, df, df_sorted, idx, seed_data >>
  /\ UNCHANGED loaderVars

\* The sort key of sort_values: texts in string order, NaN last.
SortKey(v) ==
  IF v.kind = "nan" THEN Len(TimestampTexts) + 1
  ELSE CHOOSE k \in 1..Len(TimestampTexts) : TimestampTexts[k] = v.val

\* The orders sort_values('Timestamp_EDT') may return: quicksort is not
\* stable, rows with equal keys come in any order.
SortedOrders(frame) ==
  { p \in [1..Len(frame) -> 1..Len(frame)] :
      /\ \A i, j \in 1..Len(frame) : i # j => p[i] # p[j]
      /\ \A i, j \in 1..Len(frame) :
           i < j => SortKey(frame[p[i]].Timestamp_EDT) <= SortKey(frame[p[j]].Timestamp_EDT) }

SortRows ==
  /\ pc = "sort"
  /\ df_sorted' \in SortedOrders(df)
  /\ idx' = 1
  /\ pc' = "fold"
  /\ UNCHANGED << file, raw, totalRecords, df, assets_data, log_books,
                  current_date, current_log, nextId, seed_data >>
  /\ UNCHANGED loaderVars

KnownCodes == {"ON", "OFF", "D", "SB"}

\* The table with the targets of ON and D exchanged.
duty_status_map_Exchanged ==
  [ON |-> "DRIVING", OFF |-> "OFF_DUTY", D |-> "ON_DUTY", SB |-> "SLEEPER_BERTH"]

duty_status_map ==
  [ON |-> "ON_DUTY", OFF |-> "OFF_DUTY", D |-> "DRIVING", SB |-> "SLEEPER_BERTH"]

\* The lookup that compares with the cell instead of str(cell).
VehicleIdFor_WithoutStr(assets, row) ==
  LET m == { k \in 1..Len(assets) :
               assets[k].vehicleNumber = row.Tractor_Number.val }
  IN  IF m = {} THEN None ELSE Some(assets[Min(m)]._id)

\* next((a["_id"] for a in assets_data if a["vehicleNumber"] == str(...)), None)
VehicleIdFor(assets, row) ==
  LET m == { k \in 1..Len(assets) :
               assets[k].vehicleNumber = Str(row.Tractor_Number) }
  IN  IF m = {} THEN None ELSE Some(assets[Min(m)]._id)

\* float(x) if pd.notna(x) else None
OptFloat(v) == IF NotNa(v) THEN Some(Float(v)) ELSE None

\* int(float(x)) if pd.notna(x) else None
OptInt(v) == IF NotNa(v) THEN Some(IntOf(Float(v))) ELSE None

\* x if pd.notna(x) else None
OptText(v) == IF NotNa(v) THEN Some(v.val) ELSE None

\* The dict with latitude and longitude taken from each other's column.
DutyEvent_ExchangedCoordinates(row, ts, id) ==
  [_id |-> id,
   timestamp |-> IsoFormat(ts),
   status |-> duty_status_map[row.New_Status.val],
   latitude |-> OptFloat(row.Longitude),
   longitude |-> OptFloat(row.Latitude),
   address |-> OptText(row.Location),
   odometer |-> OptInt(row.Odometer_Miles),
   engineHours |-> OptFloat(row.Engine_Hours),
   eldRecordId |-> row.ELD_ID]

\* The duty_event dict of a row.
DutyEvent(row, ts, id) ==
  [_id |-> id,
   timestamp |-> IsoFormat(ts),
   status |-> duty_status_map[row.New_Status.val],
   latitude |-> OptFloat(row.Latitude),
   longitude |-> OptFloat(row.Longitude),
   address |-> OptText(row.Location),
   odometer |-> OptInt(row.Odometer_Miles),
   engineHours |-> OptFloat(row.Engine_Hours),
   eldRecordId |-> row.ELD_ID]

\* Building the duty_event dict raises.
EventRaises(row) ==
  \E v \in {row.Latitude, row.Longitude, row.Odometer_Miles, row.Engine_Hours} :
     NotNa(v) /\ FloatRaises(v)

\* The row is a duty status change.
IsStatusChange(row) == NotNa(row.New_Status) /\ row.New_Status.val \in KnownCodes

\* The date-change step that opens a log book only when none is open.
OpenLogBook_KeepsOpenLog(st, row, ts, assets) ==
  IF st.current_date # Some(DateOf(ts))
  THEN [log_books |-> st.log_books,
        current_date |-> Some(DateOf(ts)),
        current_log |-> IF st.current_log # None THEN st.current_log
                        ELSE Some([_id |-> st.nextId,
                                   vehicleId |-> VehicleIdFor(assets, row),
                                   logDate |-> Strftime(ts),
                                   dutyEvents |-> << >>]),
        nextId |-> st.nextId + 1]
  ELSE st

\* The date-change step of the loop body: close the open log book and open
\* one for the date of the row.
OpenLogBook(st, row, ts, assets) ==
  IF st.current_date # Some(DateOf(ts))
  THEN [log_books |-> IF st.current_log # None
                      THEN Append(st.log_books, st.current_log[1])
                      ELSE st.log_books,
        current_date |-> Some(DateOf(ts)),
        current_log |-> Some([_id |-> st.nextId,
                              vehicleId |-> VehicleIdFor(assets, row),
                              logDate |-> Strftime(ts),
                              dutyEvents |-> << >>]),
        nextId |-> st.nextId + 1]
  ELSE st

\* One iteration of the loop, the try and its except included.  An exception
\* leaves what the body did before it.
ProcessRow(st, row, assets) ==
  LET ts == ToDatetime(row.Timestamp_EDT) IN
  IF TimestampRaises(row.Timestamp_EDT) THEN st
  ELSE LET opened == OpenLogBook(st, row, ts, assets) IN
       IF ~IsStatusChange(row) THEN opened
       ELSE IF EventRaises(row)
            THEN [opened EXCEPT !.nextId = @ + 1]
            ELSE [opened EXCEPT
                    !.nextId = @ + 1,
                    !.current_log[1].dutyEvents =
                       Append(@, DutyEvent(row, ts, opened.nextId))]

\* A loop without the try: the exception leaves the function.
OnRowError_Propagates == "raise"

\* except Exception as e: print(...); continue
OnRowError == "continue"

\* The row makes the loop body raise.
RowRaises(row) ==
  \/ TimestampRaises(row.Timestamp_EDT)
  \/ IsStatusChange(row) /\ EventRaises(row)

FoldState ==
  [log_books |-> log_books, current_date |-> current_date,
   current_log |-> current_log, nextId |-> nextId]

FoldRow ==
  /\ pc = "fold"
  /\ idx <= Len(df_sorted)
  /\ LET st == ProcessRow(FoldState, df[df_sorted[idx]], assets_data)
     IN  /\ log_books' = st.log_books
         /\ current_date' = st.current_date
         /\ current_log' = st.current_log
         /\ nextId' = st.nextId
  /\ idx' = idx + 1
  /\ pc' = IF RowRaises(df[df_sorted[idx]]) /\ OnRowError # "continue"
           THEN "error" ELSE "fold"
  /\ UNCHANGED << file, raw, totalRecords, df, assets_data, df_sorted,
                  seed_data >>
  /\ UNCHANGED loaderVars

\* if current_log: log_books.append(current_log)
Flush(books, log) == IF log # None THEN Append(books, log[1]) ELSE books

FlushLast ==
  /\ pc = "fold"
  /\ idx > Len(df_sorted)
  /\ log_books' = Flush(log_books, current_log)
  /\ pc' = "flushed"
  /\ UNCHANGED << file, raw, totalRecords, df, assets_data, current_date,
                  current_log, df_sorted, idx, nextId, seed_data >>
  /\ UNCHANGED loaderVars

Finalize ==
  /\ pc = "flushed"
  /\ seed_data' = Some([assets |-> assets_data, logBooks |-> log_books,
                        totalRecords |-> Len(df)])
  /\ pc' = "done"
  /\ UNCHANGED << file, raw, totalRecords, df, assets_data, log_books,
                  current_date, current_log, df_sorted, idx, nextId >>
  /\ UNCHANGED loaderVars

\* The log_books list generate_seed_data builds from a frame whose rows are
\* visited in the given order: the loop over all rows, then the flush.
GenerateLogBooks(frame, order, assets) ==
  LET F[n \in 0..Len(order)] ==
        IF n = 0
        THEN [log_books |-> << >>, current_date |-> None, current_log |-> None,
              nextId |-> 1]
        ELSE ProcessRow(F[n - 1], frame[order[n]], assets)
  IN  Flush(F[Len(order)].log_books, F[Len(order)].current_log)

\* ------------------------------------------------------ read_excel_file
JsonFile == "driver_records.json"
CsvFile == "driver_records.csv"

\* The test written as len(...) >= 1.
IsSingleSheet_AtLeastOne(names) == Len(names) >= 1

\* if len(excel_file.sheet_names) == 1
IsSingleSheet(names) == Len(names) = 1

\* An operation on a file either succeeds or raises.
Outcomes == {"ok", "raises"}

\* pd.ExcelFile(filename)
OpenWorkbook ==
  /\ lpc = "start"
  /\ \E o \in Outcomes :
       lpc' = IF o = "raises" THEN "except"
              ELSE IF IsSingleSheet(workbook) THEN "single" ELSE "multi"
  /\ sheet_i' = 1
  /\ UNCHANGED << workbook, disk, written, summaries, installed, result >>
  /\ UNCHANGED parserVars

\* df = pd.read_excel(filename) and the printed report
ReadSingle ==
  /\ lpc = "single"
  /\ \E o \in Outcomes : lpc' = IF o = "raises" THEN "except" ELSE "write_json"
  /\ UNCHANGED << workbook, sheet_i, disk, written, summaries, installed, result >>
  /\ UNCHANGED parserVars

\* with open('driver_records.json', 'w') as f: f.write(json_data)
\* open() may raise and leave no file; write() may raise after it was made.
WriteJson ==
  /\ lpc = "write_json"
  /\ \E o \in Outcomes, made \in BOOLEAN :
       /\ o = "ok" => made
       /\ lpc' = IF o = "raises" THEN "except" ELSE "write_csv"
       /\ disk' = IF made THEN disk \cup {JsonFile} ELSE disk
       /\ written' = IF made THEN written \cup {JsonFile} ELSE written
  /\ UNCHANGED << workbook, sheet_i, summaries, installed, result >>
  /\ UNCHANGED parserVars

\* df.to_csv('driver_records.csv', index=False); return df
WriteCsv ==
  /\ lpc = "write_csv"
  /\ \E o \in Outcomes, made \in BOOLEAN :
       /\ o = "ok" => made
       /\ lpc' = IF o = "raises" THEN "except" ELSE "returned"
       /\ result' = IF o = "raises" THEN result ELSE "df"
       /\ disk' = IF made THEN disk \cup {CsvFile} ELSE disk
       /\ written' = IF made THEN written \cup {CsvFile} ELSE written
  /\ UNCHANGED << workbook, sheet_i, summaries, installed >>
  /\ UNCHANGED parserVars

\* One iteration of the loop over the sheets: read the sheet, print it.
SummariseSheet ==
  /\ lpc = "multi"
  /\ sheet_i <= Len(workbook)
  /\ \E o \in Outcomes :
       IF o = "raises"
       THEN /\ lpc' = "except"
            /\ UNCHANGED << sheet_i, summaries >>
       ELSE /\ summaries' = Append(summaries, workbook[sheet_i])
            /\ sheet_i' = sheet_i + 1
            /\ lpc' = lpc
  /\ UNCHANGED << workbook, disk, written, installed, result >>
  /\ UNCHANGED parserVars

\* return all_data
ReturnAll ==
  /\ lpc = "multi"
  /\ sheet_i > Len(workbook)
  /\ result' = "all_data"
  /\ lpc' = "returned"
  /\ UNCHANGED << workbook, sheet_i, disk, written, summaries, installed >>
  /\ UNCHANGED parserVars

\* except Exception: print, subprocess.run(pip install) without check, so
\* the exit status of the installation raises nothing; return None
HandleError ==
  /\ lpc = "except"
  /\ installed' = TRUE
  /\ result' = "None"
  /\ lpc' = "returned"
  /\ UNCHANGED << workbook, sheet_i, disk, written, summaries >>
  /\ UNCHANGED parserVars

\* ------------------------------------------------------- specifications
vars == << parserVars, loaderVars >>

SheetNames == [k \in 1..MaxSheets |-> "Sheet" \o ToString(k)]

\* The loader does not run.
LoaderOff ==
  /\ workbook = << >>
  /\ lpc = "off"
  /\ sheet_i = 0
  /\ disk = {}
  /\ written = {}
  /\ summaries = << >>
  /\ installed = FALSE
  /\ result = "pending"

Init ==
  /\ LoaderOff
  /\ file \in Files
  /\ pc = "start"
  /\ raw = [width |-> 0, rows |-> << >>]
  /\ totalRecords = None
  /\ df = << >>
  /\ assets_data = << >>
  /\ log_books = << >>
  /\ current_date = None
  /\ current_log = None
  /\ df_sorted = << >>
  /\ idx = 0
  /\ nextId = 1
  /\ seed_data = None

Next ==
  \/ ReadCsv
  \/ LabelColumns
  \/ BuildAssets
  \/ SortRows
  \/ FoldRow
  \/ FlushLast
  \/ Finalize

Spec == Init /\ [][Next]_vars

\* The parser does not run.
ParserOff ==
  /\ file = << >>
  /\ pc = "off"
  /\ raw = [width |-> 0, rows |-> << >>]
  /\ totalRecords = None
  /\ df = << >>
  /\ assets_data = << >>
  /\ log_books = << >>
  /\ current_date = None
  /\ current_log = None
  /\ df_sorted = << >>
  /\ idx = 0
  /\ nextId = 1
  /\ seed_data = None

InitLoader ==
  /\ ParserOff
  /\ workbook \in { SubSeq(SheetNames, 1, n) : n \in 1..MaxSheets }
  /\ lpc = "start"
  /\ sheet_i = 0
  /\ disk \in SUBSET {JsonFile, CsvFile}
  /\ written = {}
  /\ summaries = << >>
  /\ installed = FALSE
  /\ result = "pending"

NextLoader ==
  \/ OpenWorkbook
  \/ ReadSingle
  \/ WriteJson
  \/ WriteCsv
  \/ SummariseSheet
  \/ ReturnAll
  \/ HandleError

SpecLoader == InitLoader /\ [][NextLoader]_vars

FairSpec == Spec /\ WF_vars(Next)

\* ------------------------------------------------------------ properties
\* The rows of the frame in the order the loop visits them.
SortedRows == [k \in 1..Len(df_sorted) |-> df[df_sorted[k]]]

\* All duty events of a list of log books, in order.
AllEvents(books) ==
  LET F[n \in 0..Len(books)] ==
        IF n = 0 THEN << >> ELSE F[n - 1] \o books[n].dutyEvents
  IN  F[Len(books)]

\* The status code of the row is one of the four known ones.
HasKnownCode(row) == row.New_Status.val \in {"ON", "OFF", "D", "SB"}

\* The fixed table of the specification.
MappedStatus(code) ==
  CASE code = "ON" -> "ON_DUTY"
    [] code = "OFF" -> "OFF_DUTY"
    [] code = "D" -> "DRIVING"
    [] code = "SB" -> "SLEEPER_BERTH"

\* The processing of the row fails: its timestamp is missing or no date, or
\* it has a known code and one of its numeric fields is no number.
Fails(row) ==
  \/ row.Timestamp_EDT.kind = "nan"
  \/ row.Timestamp_EDT.val = "unknown"
  \/ /\ HasKnownCode(row)
     /\ \E v \in {row.Latitude, row.Longitude, row.Odometer_Miles, row.Engine_Hours} :
          v.kind # "nan" /\ v.val = "abc"

Select(seq, keep) ==
  LET F[n \in 0..Len(seq)] ==
        IF n = 0 THEN << >>
        ELSE IF n \in keep THEN Append(F[n - 1], seq[n]) ELSE F[n - 1]
  IN  F[Len(seq)]

KnownRows == Select(SortedRows, { k \in 1..Len(df_sorted) : HasKnownCode(SortedRows[k]) })

GoodKnownRows ==
  Select(SortedRows, { k \in 1..Len(df_sorted) :
                         HasKnownCode(SortedRows[k]) /\ ~Fails(SortedRows[k]) })

InputDates ==
  { DateOf(ToDatetime(df[k].Timestamp_EDT)) :
      k \in { j \in 1..Len(df) : ~TimestampRaises(df[j].Timestamp_EDT) } }

\* C2 as claimed: the finished document has as many log books as the input
\* rows have distinct calendar dates.
C2_OneLogBookPerDate ==
  pc = "done" => Len(seed_data[1].logBooks) = Cardinality(InputDates)

\* The date part of an ISO timestamp text.
IsoDate(text) ==
  CHOOSE d \in {"2025-08-14", "2025-08-15"} :
    \E t \in {"09:00:00", "10:00:00"} : text = d \o "T" \o t

\* The log books built so far, the open one last.
BooksSoFar == IF pc = "fold" THEN Flush(log_books, current_log) ELSE log_books

\* C3: at every step of the fold and in the finished document, the date of
\* the timestamp of every duty event of a log book is the logDate of that
\* log book.
C3_EventsInTheirDate ==
  /\ \A b \in 1..Len(BooksSoFar) :
       \A e \in 1..Len(BooksSoFar[b].dutyEvents) :
         IsoDate(BooksSoFar[b].dutyEvents[e].timestamp) = BooksSoFar[b].logDate
  /\ pc = "done" =>
       \A b \in 1..Len(seed_data[1].logBooks) :
         \A e \in 1..Len(seed_data[1].logBooks[b].dutyEvents) :
           IsoDate(seed_data[1].logBooks[b].dutyEvents[e].timestamp)
             = seed_data[1].logBooks[b].logDate

\* Two log books of different dates with an event each, after a failed row.
C3_Witness ==
  /\ pc = "fold"
  /\ Len(BooksSoFar) = 2
  /\ BooksSoFar[1].logDate # BooksSoFar[2].logDate
  /\ Len(BooksSoFar[1].dutyEvents) = 1
  /\ Len(BooksSoFar[2].dutyEvents) = 1
  /\ \E k \in 1..(idx - 2) : Fails(SortedRows[k])
  /\ ~Fails(SortedRows[idx - 1])

\* A sequence without its k-th element.
RemoveAt(seq, k) == [n \in 1..(Len(seq) - 1) |-> IF n < k THEN seq[n] ELSE seq[n + 1]]

\* The order df_sorted without its k-th position, as an order of the frame
\* without that row.
OrderWithout(k) ==
  LET rest == RemoveAt(df_sorted, k)
  IN  [n \in 1..Len(rest) |->
         IF rest[n] > df_sorted[k] THEN rest[n] - 1 ELSE rest[n]]

\* What a list of log books says, the generated ids left out: the date, the
\* vehicle number of the referenced asset and the events of each log book.
Content(books, assets) ==
  [b \in 1..Len(books) |->
     [logDate |-> books[b].logDate,
      vehicle |-> IF books[b].vehicleId = None THEN None
                  ELSE Some((CHOOSE a \in { assets[n] : n \in 1..Len(assets) } :
                               a._id = books[b].vehicleId[1]).vehicleNumber),
      events |-> [e \in 1..Len(books[b].dutyEvents) |->
                    [f \in {"timestamp", "status", "latitude", "longitude",
                            "address", "odometer", "engineHours", "eldRecordId"} |->
                       books[b].dutyEvents[e][f]]]]]

\* C4 as claimed: the finished log books are those of the same frame without
\* a row whose processing failed.
C4_FailedRowIsOmitted ==
  pc = "done" =>
    \A k \in 1..Len(df_sorted) :
      Fails(SortedRows[k]) =>
        LET frame == RemoveAt(df, df_sorted[k])
            assets == MakeAssets(frame, 2)
        IN  Content(seed_data[1].logBooks, seed_data[1].assets)
              = Content(GenerateLogBooks(frame, OrderWithout(k), assets), assets)

\* The file is SkipRows leading lines followed by data lines only.
OnlyDataAfterBanner == Len(file) = SkipRows \/ file[SkipRows + 1] # NamesLine

\* C5 as claimed: of a file of 5 leading lines followed by N data lines, all
\* N data lines are records: Total Records and metadata.totalRecords are N.
C5_AllDataRowsKept ==
  OnlyDataAfterBanner =>
    /\ pc \in {"read", "generate", "sort", "fold", "flushed", "done"} =>
         totalRecords = Some(Len(file) - SkipRows)
    /\ pc = "done" => seed_data[1].totalRecords = Len(file) - SkipRows

\* The tractor numbers of the frame that are not missing.
InputTractors ==
  { df[k].Tractor_Number : k \in { j \in 1..Len(df) : df[j].Tractor_Number.kind # "nan" } }

CarriesNumber(opt, cell, unit) ==
  IF cell.kind = "nan" THEN opt = None
  ELSE opt # None /\ opt[1] * unit = Float(cell)

\* The optional value is missing exactly when the cell is, and otherwise is
\* the number of the cell cut to a whole number.
CarriesWhole(opt, cell) ==
  IF cell.kind = "nan" THEN opt = None
  ELSE opt # None /\ opt[1] * 10 <= Float(cell) /\ Float(cell) < (opt[1] + 1) * 10

CarriesText(opt, cell) ==
  IF cell.kind = "nan" THEN opt = None ELSE opt = Some(cell.val)

DatedRowsSoFar ==
  LET n == IF pc = "fold" THEN idx - 1 ELSE Len(df_sorted)
  IN  Select(SortedRows, { k \in 1..n :
                             /\ SortedRows[k].Timestamp_EDT.kind # "nan"
                             /\ SortedRows[k].Timestamp_EDT.val # "unknown" })

\* Of these, the rows at which the date changed.
DateChangeRows ==
  Select(DatedRowsSoFar,
         { k \in 1..Len(DatedRowsSoFar) :
             \/ k = 1
             \/ DateOf(ToDatetime(DatedRowsSoFar[k].Timestamp_EDT))
                  # DateOf(ToDatetime(DatedRowsSoFar[k - 1].Timestamp_EDT)) })

TractorText(t) ==
  IF t.kind = "nan" THEN "nan"
  ELSE IF t.kind = "float" THEN t.val \o ".0" ELSE t.val

\* The _id of the first asset whose vehicleNumber is that of the row, if any.
FirstAssetOf(row) ==
  LET m == { n \in 1..Len(assets_data) :
               assets_data[n].vehicleNumber = TractorText(row.Tractor_Number) }
  IN  IF m = {} THEN None
      ELSE Some(assets_data[CHOOSE n \in m : \A o \in m : n <= o]._id)

C7_SidecarsOnlyForOneSheet ==
  /\ written # {} => Len(workbook) = 1
  /\ Len(workbook) > 1 => written = {} /\ result # "df"
  /\ lpc \in {"start", "single", "write_json", "write_csv", "multi", "except", "returned"}
  /\ lpc = "returned" =>
       \/ /\ result = "df"
          /\ Len(workbook) = 1
          /\ written = {JsonFile, CsvFile}
          /\ ~installed
       \/ /\ result = "all_data"
          /\ Len(workbook) > 1
          /\ summaries = workbook
          /\ ~installed
       \/ /\ result = "None"
          /\ installed
  /\ lpc = "except" => result = "pending"

\* A run over several sheets returned the per-sheet data while an older
\* csv file exists that it did not write.
C7_Witness ==
  /\ lpc = "returned"
  /\ result = "all_data"
  /\ Len(workbook) = 2
  /\ CsvFile \in disk
  /\ written = {}

====
